---- MODULE Spec2Model ----
(***************************************************************************)
(* Model of the model-download hook (hooks/useModelDownload.ts), of the    *)
(* model manager (hooks/createModelManager.ts) and of the vision component *)
(* (components/VLM.tsx): its capture/analysis queue, its session, its      *)
(* interval timer and its unmount.                                         *)
(* Every asynchronous function is cut at its awaits: one action per piece  *)
(* of code that runs without yielding to the event loop.                   *)
(***************************************************************************)
EXTENDS Integers, Sequences, FiniteSets, TLC

VARIABLES
  files,        \* the device storage: path -> size in bytes, for the files that exist
  downloads,    \* useState Map<string, DownloadProgress> of the hook
  calls,        \* the hook calls in flight, one slot per pending promise
  nops,         \* number of hook calls made so far
  last,         \* the hook call that settled last, with what it returned
  kept,         \* filename -> the path its last successful download returned,
                \* while the file at that path has not been deleted
  dirs,         \* the device storage: the directories that exist
  vlm,          \* useState<CactusVLM | null>: a session number, 0 for null
  isProcessing, \* isProcessingRef.current
  queue,        \* analysisQueueRef.current: the frames pushed and not yet dropped
  captures,     \* the takePictureAsync calls pending, with the closure of each
  rounds,       \* the processAnalysisQueue calls past their guard
  inits,        \* number of initializeVLM calls in flight
  analysisHistory, \* useState<AnalysisHistoryItem[]>
  nframes,      \* photos taken so far; a frame is named by its number
  nsessions,    \* sessions CactusVLM.init has created so far
  ninits,       \* initializeVLM calls made so far
  enq,          \* frame -> the frame under analysis when it was pushed, 0 for none
  log,          \* the vlm.completion calls made so far, in order
  failed,       \* frames whose round ended in the catch block
  unhandled,    \* frames whose processAnalysisQueue promise rejected
  temps,        \* frames whose copy in temp_images/ exists
  released,     \* sessions on which release() has been called
  isActive,     \* useState(false): the Start / Stop button
  captureInterval, \* useState(3000): the period selected, in milliseconds
  timers,       \* the setInterval timers not cleared, each with its period
  intervalRef,  \* intervalRef.current: the id of a timer, 0 for null
  ntimers,      \* setInterval calls made so far; a timer is named by its number
  mounted,      \* whether the component is mounted
  nuser,        \* presses of Start / Stop and of the interval buttons so far
  models,       \* createModelManager: Map<string, CactusLM>, name -> instance
  lmCalls,      \* the loadLM / releaseModel / releaseAll calls in flight
  nlm,          \* instances CactusLM.init has created so far
  nlmOps,       \* model manager calls made so far
  lmInits,      \* name -> CactusLM.init calls made for it and not failed, since
                \* release() was last called on an instance of that name
  lmReturned,   \* name -> instances loadLM has returned for it since then
  lmReleased    \* instances on which release() has been called

dlVars == <<files, downloads, calls, nops, last, kept, dirs>>
camVars == <<isActive, captureInterval, timers, intervalRef, ntimers, mounted,
            nuser>>
vlmVars == <<vlm, isProcessing, queue, captures, rounds, inits, analysisHistory,
             nframes, nsessions, ninits, enq, log, failed, unhandled, temps,
             released, camVars>>
mmVars == <<models, lmCalls, nlm, nlmOps, lmInits, lmReturned, lmReleased>>
vars == <<dlVars, vlmVars, mmVars>>

\* what the actions of one part leave alone
restDL == <<vlmVars, mmVars>>
restVLM == <<dlVars, mmVars>>
restMM == <<dlVars, vlmVars>>

-----------------------------------------------------------------------------
(* Bounds of the model *)

MaxCalls == 2      \* hook calls in flight at once
MaxOps == 2        \* hook calls made in one behaviour, overlapping at will
MaxSeqOps == 3     \* hook calls made in one behaviour, one after the other
MaxFrames == 4     \* photos taken in one behaviour
MaxPending == 3    \* takePictureAsync calls pending at once
MaxInits == 2      \* initializeVLM calls in one behaviour
MaxPromptFrames == 3 \* photos taken in one behaviour in which prompts vary
MaxCamFrames == 2  \* photos taken in one behaviour in which the timer runs
MaxUserOps == 3    \* presses of Start / Stop and of the interval buttons
MaxLmOps == 3      \* model manager calls made in one behaviour
FileSize == 2      \* bytes of a model artifact on the server

Filenames == {"a.gguf", "b.gguf", "voices/c.gguf"}

\* the filenames of the calls made one after the other, and of the calls for
\* two filenames that overlap
SeqFilenames == {"a.gguf", "voices/c.gguf"}
PairFilenames == {"a.gguf", "b.gguf"}

-----------------------------------------------------------------------------
(* Numbers: a progress value is the JavaScript quotient n / d, kept exact.  *)
(* d = 0 gives NaN (0 / 0) or Infinity (n / 0, n > 0).                      *)

RECURSIVE Gcd(_, _)
Gcd(a, b) == IF b = 0 THEN a ELSE Gcd(b, a % b)

Abs(x) == IF x < 0 THEN -x ELSE x

Quot(n, d) ==
  IF d = 0 THEN [n |-> IF n = 0 THEN 0 ELSE 1, d |-> 0]
  ELSE LET g == Gcd(Abs(n), Abs(d))
           s == IF d < 0 THEN -1 ELSE 1
       IN [n |-> s * (n \div g), d |-> s * (d \div g)]

Zero == Quot(0, 1)
One == Quot(1, 1)
IsNaN(p) == p.d = 0 /\ p.n = 0

\* p <= q as JavaScript compares numbers: false whenever one side is NaN
Leq(p, q) ==
  /\ ~IsNaN(p) /\ ~IsNaN(q)
  /\ IF q.d = 0 THEN TRUE
     ELSE IF p.d = 0 THEN FALSE
     ELSE p.n * q.d <= q.n * p.d

-----------------------------------------------------------------------------
(* Storage paths *)

ModelsDir == "documentDirectory/models/"
DocumentDir == "documentDirectory/"

\* the template string `${dir}${filename}`
PathOf(dir, filename) == [dir |-> dir, name |-> filename]
NoPath == PathOf("", "")

\* getStoragePath: versionOk is what checkAndroidVersion() resolves to,
\* scopedOk whether useScopedStorage() returns its directories
getStoragePath(filename, versionOk, scopedOk) ==
  IF versionOk /\ scopedOk
    THEN PathOf(ModelsDir, filename)
    ELSE PathOf(DocumentDir, filename)

\* the directories once getStoragePath has run: useScopedStorage() is called
\* when checkAndroidVersion() resolves to true, and returns its directories
\* once models/ exists, making it when it is missing
useScopedStorage(ds, versionOk, scopedOk) ==
  IF versionOk /\ scopedOk THEN ds \cup {[dir |-> ModelsDir, sub |-> ""]} ELSE ds

\* filename.substring(0, filename.lastIndexOf("/") + 1) of the filenames
Subdir(filename) == IF filename = "voices/c.gguf" THEN "voices/" ELSE ""

\* filePath.substring(0, filePath.lastIndexOf("/")): the directory of the file
Parent(path) == [dir |-> path.dir, sub |-> Subdir(path.name)]

\* FileSystem.getInfoAsync(directory)
getDirInfo(directory, ds) == [exists |-> directory \in ds]

\* whether a value counts as true in a condition: any object does
Truthy(value) == TRUE

\* the directories once ensureDirectoryExists(filePath) has run: exists is
\* the object getInfoAsync gives, and the directory is made when !exists
ensureDirectoryExists(filePath, ds) ==
  IF ~Truthy(getDirInfo(Parent(filePath), ds))
    THEN ds \cup {Parent(filePath)}
    ELSE ds

\* FileSystem.getInfoAsync(path): {exists, size}
getInfo(path) ==
  IF path \in DOMAIN files
    THEN [exists |-> TRUE, size |-> files[path]]
    ELSE [exists |-> FALSE, size |-> 0]

\* the size getInfoAsync reports, -1 for no file
FoundSize(path) == IF getInfo(path).exists THEN getInfo(path).size ELSE -1

\* mutant: the size is not looked at
AlreadyStoredAnySize(fileInfo) == fileInfo.exists

\* downloadModel's test: fileInfo.exists && fileInfo.size && fileInfo.size > 0
AlreadyStored(fileInfo) == fileInfo.exists /\ fileInfo.size # 0 /\ fileInfo.size > 0

\* getModelPath's and deleteModel's test: fileInfo.exists
Exists(fileInfo) == fileInfo.exists

-----------------------------------------------------------------------------
(* The download records *)

\* what the download primitive may announce as totalBytesExpectedToWrite: the
\* length of the artifact, or -1 when the server sends no length
ExpectedTotals == {FileSize, -1}

\* a file system call throws
FsError == "filesystem error"

\* downloadAsync rejects, or the code throws for a result that is not a 200
TransferError == "Download failed with status"

DownloadProgress(progress, isDownloading, error) ==
  [progress |-> progress, isDownloading |-> isDownloading, error |-> error]

StartRecord == DownloadProgress(Zero, TRUE, "null")
ProgressRecord(written, expected) ==
  DownloadProgress(Quot(written, expected), TRUE, "null")
\* mutant: the record is left in the downloading state
CompleteRecordStillDownloading == DownloadProgress(One, TRUE, "null")

\* the record of the short-circuit and of a transfer that ended with status 200
CompleteRecord == DownloadProgress(One, FALSE, "null")

\* mutant: the error is not stored
FailedRecordNoError(message) == DownloadProgress(Zero, FALSE, "null")

\* the catch block: String(error.message), a string whatever was thrown
FailedRecord(message) == DownloadProgress(Zero, FALSE, message)

\* mutant: the other entries are not carried over, new Map().set(key, value)
MapSetAlone(m, key, value) == [k \in {key} |-> value]

\* new Map(prev.set(key, value))
MapSet(m, key, value) ==
  [k \in DOMAIN m \cup {key} |-> IF k = key THEN value ELSE m[k]]

\* newMap.delete(key), FileSystem.deleteAsync(key)
MapDelete(m, key) == [k \in DOMAIN m \ {key} |-> m[k]]

-----------------------------------------------------------------------------
(* Hook calls in flight *)

Slots == 1..MaxCalls

IdleCall ==
  [op |-> "none", f |-> "", pc |-> "idle", path |-> NoPath, w |-> 0, e |-> 0,
   net |-> FALSE, found |-> -1, rising |-> TRUE, solo |-> FALSE,
   fresh |-> FALSE, prior |-> NoPath, follows |-> "none",
   followsPath |-> NoPath]

\* the record of a settled call: what it returned (ret, err), the size its
\* existence check found (found, -1 for no file), whether it began a transfer
\* (net), whether every progress value it stored was at least the one before
\* and at most 1 (rising), the record and the stored files of f it left, and
\* the size of the file it left at its path (size, -1 for no file)
Settled(call, ret, err, d, fs) ==
  [op |-> call.op, f |-> call.f, ret |-> ret, err |-> err, path |-> call.path,
   net |-> call.net, found |-> call.found, rising |-> call.rising,
   solo |-> call.solo, fresh |-> call.fresh,
   prior |-> call.prior, follows |-> call.follows,
   followsPath |-> call.followsPath,
   rec |-> IF call.f \in DOMAIN d THEN {d[call.f]} ELSE {},
   stored |-> {p \in DOMAIN fs : p.name = call.f},
   size |-> IF call.path \in DOMAIN fs THEN fs[call.path] ELSE -1]

NoCall == Settled(IdleCall, "void", "none", <<>>, <<>>)

\* what the call being made follows, when nothing else is in flight: a
\* successful downloadModel(f) that ran alone ("download"), or a deleteModel(f)
\* that ran alone right after such a download and returned true ("delete")
Follows(op, f) ==
  IF ~(\A j \in Slots : calls[j].pc = "idle") \/ ~last.solo \/ last.f # f
    THEN "none"
  ELSE IF last.op = "download" /\ last.ret = "path" THEN "download"
  ELSE IF /\ op = "delete" /\ last.op = "delete"
          /\ last.follows = "download" /\ last.ret = "true"
    THEN "delete"
  ELSE "none"

\* a call is made: it resolves its path (await getStoragePath) and yields
Begin(c, op, f, path) ==
  /\ calls[c].pc = "idle"
  /\ \A k \in Slots : k < c => calls[k].pc # "idle"
  /\ UNCHANGED restDL
  /\ nops' = nops + 1
  /\ calls' = [k \in Slots |->
       IF k = c
         THEN [op |-> op, f |-> f, pc |-> "resolved", path |-> path, w |-> 0,
               e |-> 0, net |-> FALSE, found |-> -1, rising |-> TRUE,
               solo |-> \A j \in Slots : calls[j].pc = "idle",
               fresh |-> DOMAIN files = {} /\ f \notin DOMAIN downloads,
               prior |-> kept[f],
               follows |-> Follows(op, f),
               followsPath |-> IF Follows(op, f) = "download" THEN last.path
                               ELSE IF Follows(op, f) = "delete"
                                 THEN last.followsPath
                               ELSE NoPath]
         ELSE [calls[k] EXCEPT !.solo = FALSE]]

\* the promise of call c settles with ret; d and fs are the records and the
\* storage it leaves
Settle(c, ret, err, d, fs) ==
  /\ last' = Settled(calls[c], ret, err, d, fs)
  /\ calls' = [calls EXCEPT ![c] = IdleCall]

\* downloadModel's catch block: the record is set to failed, the error rethrown
downloadFailed(c, message) ==
  /\ downloads' = MapSet(downloads, calls[c].f, FailedRecord(message))
  /\ Settle(c, "rejected", message, downloads', files)
  /\ UNCHANGED kept

\* downloadModel returns its path
downloadReturns(c, d, fs) ==
  /\ Settle(c, "path", "none", d, fs)
  /\ kept' = [kept EXCEPT ![calls[c].f] = calls[c].path]

-----------------------------------------------------------------------------
(* downloadModel(url, filename) *)

downloadModel(c, f) ==
  /\ \E versionOk, scopedOk \in BOOLEAN :
       /\ Begin(c, "download", f, getStoragePath(f, versionOk, scopedOk))
       /\ dirs' = useScopedStorage(dirs, versionOk, scopedOk)
  /\ UNCHANGED <<files, downloads, last, kept>>

\* await ensureDirectoryExists(path); await getInfoAsync(path); then either the
\* short-circuit or the start of the transfer
downloadCheck(c) ==
  /\ UNCHANGED restDL
  /\ dirs' = ensureDirectoryExists(calls[c].path, dirs)
  /\ calls[c].op = "download" /\ calls[c].pc = "resolved"
  /\ \/ /\ downloadFailed(c, FsError)
        /\ UNCHANGED <<files, nops>>
     \/ /\ AlreadyStored(getInfo(calls[c].path))
        /\ downloads' = MapSet(downloads, calls[c].f, CompleteRecord)
        /\ downloadReturns(c, downloads', files)
        /\ UNCHANGED <<files, nops>>
     \/ /\ ~AlreadyStored(getInfo(calls[c].path))
        /\ downloads' = MapSet(downloads, calls[c].f, StartRecord)
        /\ calls' = [calls EXCEPT ![c].pc = "transfer", ![c].net = TRUE,
                                  ![c].found = FoundSize(calls[c].path)]
        /\ UNCHANGED <<files, nops, last, kept>>

\* the server answers: the primitive opens the target file for writing, which
\* takes the directory of the file to exist (downloadAsync rejects otherwise)
downloadResponse(c) ==
  /\ UNCHANGED <<restDL, dirs>>
  /\ calls[c].op = "download" /\ calls[c].pc = "transfer"
  /\ Parent(calls[c].path) \in dirs
  /\ \E expected \in ExpectedTotals :
       calls' = [calls EXCEPT ![c].pc = "body", ![c].e = expected]
  /\ files' = MapSet(files, calls[c].path, 0)
  /\ UNCHANGED <<downloads, nops, last, kept>>

\* a chunk is written and the progress callback runs
downloadProgress(c) ==
  /\ UNCHANGED <<restDL, dirs>>
  /\ calls[c].op = "download" /\ calls[c].pc = "body"
  /\ calls[c].w < FileSize
  /\ calls' = [calls EXCEPT
       ![c].w = calls[c].w + 1,
       ![c].rising = /\ @
                     /\ calls[c].f \in DOMAIN downloads
                     /\ Leq(downloads[calls[c].f].progress,
                            Quot(calls[c].w + 1, calls[c].e))
                     /\ Leq(Quot(calls[c].w + 1, calls[c].e), One)]
  /\ files' = MapSet(files, calls[c].path, calls[c].w + 1)
  /\ downloads' = MapSet(downloads, calls[c].f,
                         ProgressRecord(calls[c].w + 1, calls[c].e))
  /\ UNCHANGED <<nops, last, kept>>

\* downloadAsync resolves with status 200
downloadComplete(c) ==
  /\ UNCHANGED <<restDL, dirs>>
  /\ calls[c].op = "download" /\ calls[c].pc = "body"
  /\ files' = MapSet(files, calls[c].path, FileSize)
  /\ downloads' = MapSet(downloads, calls[c].f, CompleteRecord)
  /\ downloadReturns(c, downloads', files')
  /\ UNCHANGED nops

\* downloadAsync rejects, or resolves with undefined or with another status
\* than 200 (the code then throws "Download failed with status: ...")
downloadError(c) ==
  /\ UNCHANGED <<restDL, dirs>>
  /\ calls[c].op = "download"
  /\ calls[c].pc \in {"transfer", "body"}
  /\ downloadFailed(c, TransferError)
  /\ UNCHANGED <<files, nops>>

-----------------------------------------------------------------------------
(* deleteModel(filename), getModelPath(filename), clearDownload(filename) *)

deleteModel(c, f) ==
  /\ \E versionOk, scopedOk \in BOOLEAN :
       /\ Begin(c, "delete", f, getStoragePath(f, versionOk, scopedOk))
       /\ dirs' = useScopedStorage(dirs, versionOk, scopedOk)
  /\ UNCHANGED <<files, downloads, last, kept>>

\* await getInfoAsync(path): it throws (caught: false), or tells whether the
\* file exists
deleteCheck(c) ==
  /\ UNCHANGED <<restDL, dirs>>
  /\ calls[c].op = "delete" /\ calls[c].pc = "resolved"
  /\ \/ Settle(c, "false", FsError, downloads, files)
     \/ /\ ~Exists(getInfo(calls[c].path))
        /\ Settle(c, "false", "none", downloads, files)
     \/ /\ Exists(getInfo(calls[c].path))
        /\ calls' = [calls EXCEPT ![c].pc = "deleting"]
        /\ UNCHANGED last
  /\ UNCHANGED <<files, downloads, nops, kept>>

\* await deleteAsync(path): it throws (also when the file is gone by now), or
\* removes the file; then the record is removed
deleteDone(c) ==
  /\ UNCHANGED <<restDL, dirs>>
  /\ calls[c].op = "delete" /\ calls[c].pc = "deleting"
  /\ \/ /\ last' = Settled(calls[c], "false", FsError, downloads, files)
        /\ calls' = [calls EXCEPT ![c] = IdleCall]
        /\ UNCHANGED <<files, downloads, kept>>
     \/ /\ calls[c].path \in DOMAIN files
        /\ files' = MapDelete(files, calls[c].path)
        /\ downloads' = MapDelete(downloads, calls[c].f)
        /\ last' = Settled(calls[c], "true", "none", downloads', files')
        /\ kept' = [kept EXCEPT ![calls[c].f] =
                      IF @ = calls[c].path THEN NoPath ELSE @]
        /\ calls' = [k \in Slots |->
             IF k = c THEN IdleCall
             ELSE IF calls[k].prior = calls[c].path
               THEN [calls[k] EXCEPT !.prior = NoPath]
             ELSE calls[k]]
  /\ UNCHANGED nops

getModelPath(c, f) ==
  /\ \E versionOk, scopedOk \in BOOLEAN :
       /\ Begin(c, "lookup", f, getStoragePath(f, versionOk, scopedOk))
       /\ dirs' = useScopedStorage(dirs, versionOk, scopedOk)
  /\ UNCHANGED <<files, downloads, last, kept>>

getModelPathCheck(c) ==
  /\ UNCHANGED <<restDL, dirs>>
  /\ calls[c].op = "lookup" /\ calls[c].pc = "resolved"
  /\ \/ Settle(c, "null", FsError, downloads, files)
     \/ /\ Exists(getInfo(calls[c].path))
        /\ Settle(c, "path", "none", downloads, files)
     \/ /\ ~Exists(getInfo(calls[c].path))
        /\ Settle(c, "null", "none", downloads, files)
  /\ UNCHANGED <<files, downloads, nops, kept>>

\* synchronous: no slot is held
clearDownload(f) ==
  /\ UNCHANGED <<restDL, dirs>>
  /\ nops' = nops + 1
  /\ downloads' = MapDelete(downloads, f)
  /\ calls' = [k \in Slots |-> [calls[k] EXCEPT !.solo = FALSE]]
  /\ last' = [Settled(IdleCall, "void", "none", downloads', files)
                EXCEPT !.op = "clear", !.f = f]
  /\ UNCHANGED <<files, kept>>

-----------------------------------------------------------------------------
(* createModelManager(): loadLM, releaseModel, releaseAll *)

ModelNames == {"main-lm", "tts-lm"}

IdleLmCall == [op |-> "none", name |-> "", pc |-> "idle", insts |-> {}]

\* the values of the map
Loaded == {models[name] : name \in DOMAIN models}

\* loadLM's test: models.has(name)
AlreadyLoaded(m, name) == name \in DOMAIN m

\* a call is made into the lowest free slot
BeginLm(c) ==
  /\ UNCHANGED restMM
  /\ nlmOps < MaxLmOps
  /\ lmCalls[c].pc = "idle"
  /\ \A k \in Slots : k < c => lmCalls[k].pc # "idle"
  /\ nlmOps' = nlmOps + 1

\* release() is called on the instances of S: their names start afresh
ReleaseCalled(S) ==
  /\ lmReleased' = lmReleased \cup S
  /\ lmInits' = [name \in ModelNames |->
       IF name \in DOMAIN models /\ models[name] \in S THEN 0 ELSE lmInits[name]]
  /\ lmReturned' = [name \in ModelNames |-> lmReturned[name] \ S]

\* loadLM(name, modelPath) up to its first await: the instance of the map is
\* returned, or CactusLM.init is called
loadLM(c, name) ==
  /\ BeginLm(c)
  /\ IF AlreadyLoaded(models, name)
       THEN /\ lmReturned' = [lmReturned EXCEPT ![name] = @ \cup {models[name]}]
            /\ UNCHANGED <<lmCalls, lmInits>>
       ELSE /\ lmCalls' = [lmCalls EXCEPT ![c] =
                 [op |-> "load", name |-> name, pc |-> "init", insts |-> {}]]
            /\ lmInits' = [lmInits EXCEPT ![name] = @ + 1]
            /\ UNCHANGED lmReturned
  /\ UNCHANGED <<models, nlm, lmReleased>>

\* CactusLM.init resolves with an instance: models.set(name, lm); return lm
loadLMDone(c) ==
  /\ UNCHANGED restMM
  /\ lmCalls[c].op = "load" /\ lmCalls[c].pc = "init"
  /\ nlm' = nlm + 1
  /\ models' = MapSet(models, lmCalls[c].name, nlm + 1)
  /\ lmReturned' = [lmReturned EXCEPT ![lmCalls[c].name] = @ \cup {nlm + 1}]
  /\ lmCalls' = [lmCalls EXCEPT ![c] = IdleLmCall]
  /\ UNCHANGED <<nlmOps, lmInits, lmReleased>>

\* CactusLM.init resolves with an error or without an instance: loadLM throws
loadLMFailed(c) ==
  /\ UNCHANGED restMM
  /\ lmCalls[c].op = "load" /\ lmCalls[c].pc = "init"
  /\ lmInits' = [lmInits EXCEPT ![lmCalls[c].name] = @ - 1]
  /\ lmCalls' = [lmCalls EXCEPT ![c] = IdleLmCall]
  /\ UNCHANGED <<models, nlm, nlmOps, lmReturned, lmReleased>>

\* releaseModel(name) up to its await: model.release() is called when the map
\* holds an instance
releaseModel(c, name) ==
  /\ BeginLm(c)
  /\ IF name \in DOMAIN models
       THEN /\ lmCalls' = [lmCalls EXCEPT ![c] =
                 [op |-> "release", name |-> name, pc |-> "releasing",
                  insts |-> {models[name]}]]
            /\ ReleaseCalled({models[name]})
       ELSE UNCHANGED <<lmCalls, lmInits, lmReturned, lmReleased>>
  /\ UNCHANGED <<models, nlm>>

\* model.release() resolves: models.delete(name); or it rejects and
\* releaseModel throws
releaseModelDone(c, ok) ==
  /\ UNCHANGED restMM
  /\ lmCalls[c].op = "release" /\ lmCalls[c].pc = "releasing"
  /\ models' = IF ok THEN MapDelete(models, lmCalls[c].name) ELSE models
  /\ lmCalls' = [lmCalls EXCEPT ![c] = IdleLmCall]
  /\ UNCHANGED <<nlm, nlmOps, lmInits, lmReturned, lmReleased>>

\* releaseAll() up to its await: release() is called on every value of the map
releaseAll(c) ==
  /\ BeginLm(c)
  /\ lmCalls' = [lmCalls EXCEPT ![c] =
       [op |-> "releaseAll", name |-> "", pc |-> "releasing", insts |-> Loaded]]
  /\ ReleaseCalled(Loaded)
  /\ UNCHANGED <<models, nlm>>

\* Promise.all resolves: models.clear(); or one release() rejects and
\* releaseAll throws
releaseAllDone(c, ok) ==
  /\ UNCHANGED restMM
  /\ lmCalls[c].op = "releaseAll" /\ lmCalls[c].pc = "releasing"
  /\ models' = IF ok THEN <<>> ELSE models
  /\ lmCalls' = [lmCalls EXCEPT ![c] = IdleLmCall]
  /\ UNCHANGED <<nlm, nlmOps, lmInits, lmReturned, lmReleased>>

-----------------------------------------------------------------------------
(* The hook on its own *)

InitDL ==
  /\ files = <<>>
  /\ downloads = <<>>
  /\ calls = [c \in Slots |-> IdleCall]
  /\ nops = 0
  /\ last = NoCall
  /\ kept = [f \in Filenames |-> NoPath]
  /\ dirs = {[dir |-> DocumentDir, sub |-> ""]}

\* the component has mounted: its effect has called initializeVLM()
InitVLM ==
  /\ vlm = 0
  /\ isProcessing = FALSE
  /\ queue = <<>>
  /\ captures = <<>>
  /\ rounds = {}
  /\ inits = 1
  /\ analysisHistory = <<>>
  /\ nframes = 0
  /\ nsessions = 0
  /\ ninits = 1
  /\ enq = <<>>
  /\ log = <<>>
  /\ failed = {}
  /\ unhandled = {}
  /\ temps = {}
  /\ released = {}
  /\ isActive = FALSE
  /\ captureInterval = 3000
  /\ timers = {}
  /\ intervalRef = 0
  /\ ntimers = 0
  /\ mounted = TRUE
  /\ nuser = 0

\* createModelManager(): const models = new Map()
InitMM ==
  /\ models = <<>>
  /\ lmCalls = [c \in Slots |-> IdleLmCall]
  /\ nlm = 0
  /\ nlmOps = 0
  /\ lmInits = [name \in ModelNames |-> 0]
  /\ lmReturned = [name \in ModelNames |-> {}]
  /\ lmReleased = {}

Init == InitDL /\ InitVLM /\ InitMM

Idle == \A c \in Slots : calls[c].pc = "idle"

\* the caller makes calls for one filename, overlapping at will
NextDL ==
  \/ nops < MaxOps /\ \E c \in Slots : downloadModel(c, "a.gguf")
  \/ nops < MaxOps /\ \E c \in Slots : deleteModel(c, "a.gguf")
  \/ nops < MaxOps /\ clearDownload("a.gguf")
  \/ \E c \in Slots : downloadCheck(c)
  \/ \E c \in Slots : downloadResponse(c)
  \/ \E c \in Slots : downloadProgress(c)
  \/ \E c \in Slots : downloadComplete(c)
  \/ \E c \in Slots : downloadError(c)
  \/ \E c \in Slots : deleteCheck(c)
  \/ \E c \in Slots : deleteDone(c)

SpecDL == Init /\ [][NextDL]_vars

\* the caller awaits each call before it makes the next
NextSeq ==
  \/ nops < MaxSeqOps /\ Idle /\ \E f \in SeqFilenames : downloadModel(1, f)
  \/ nops < MaxSeqOps /\ Idle /\ \E f \in SeqFilenames : deleteModel(1, f)
  \/ nops < MaxSeqOps /\ Idle /\ \E f \in SeqFilenames : getModelPath(1, f)
  \/ nops < MaxSeqOps /\ Idle /\ \E f \in SeqFilenames : clearDownload(f)
  \/ downloadCheck(1)
  \/ downloadResponse(1)
  \/ downloadProgress(1)
  \/ downloadComplete(1)
  \/ downloadError(1)
  \/ deleteCheck(1)
  \/ deleteDone(1)
  \/ getModelPathCheck(1)

SpecSeq == Init /\ [][NextSeq]_vars

\* no call for filename f is in flight
Free(f) == \A c \in Slots : calls[c].pc = "idle" \/ calls[c].f # f

\* the caller makes calls for two filenames: it awaits a call before it makes
\* the next for the same filename, and lets the calls for different filenames
\* overlap at will
NextPair ==
  \/ nops < MaxOps /\ \E c \in Slots, f \in PairFilenames :
       Free(f) /\ downloadModel(c, f)
  \/ nops < MaxOps /\ \E c \in Slots, f \in PairFilenames :
       Free(f) /\ deleteModel(c, f)
  \/ nops < MaxOps /\ \E f \in PairFilenames : Free(f) /\ clearDownload(f)
  \/ \E c \in Slots : downloadCheck(c)
  \/ \E c \in Slots : downloadResponse(c)
  \/ \E c \in Slots : downloadProgress(c)
  \/ \E c \in Slots : downloadComplete(c)
  \/ \E c \in Slots : downloadError(c)
  \/ \E c \in Slots : deleteCheck(c)
  \/ \E c \in Slots : deleteDone(c)

SpecPair == Init /\ [][NextPair]_vars

\* the callers of the model manager, overlapping at will
NextMM ==
  \/ \E c \in Slots, name \in ModelNames : loadLM(c, name)
  \/ \E c \in Slots : loadLMDone(c)
  \/ \E c \in Slots : loadLMFailed(c)
  \/ \E c \in Slots, name \in ModelNames : releaseModel(c, name)
  \/ \E c \in Slots, ok \in BOOLEAN : releaseModelDone(c, ok)
  \/ \E c \in Slots : releaseAll(c)
  \/ \E c \in Slots, ok \in BOOLEAN : releaseAllDone(c, ok)

SpecMM == Init /\ [][NextMM]_vars

-----------------------------------------------------------------------------
(* The vision component: captureAndAnalyze, handleUserPromptSubmit,           *)
(* processAnalysisQueue, resetVLMContext, initializeVLM                       *)

NoPrompt == "undefined"
userPrompt == "Describe what's ahead of me."
DefaultPrompt == "Briefly describe what you see in this image"

\* what the text input may hold when Analyze is pressed: its initial text, or
\* nothing once the user has cleared it
UserPrompts == {userPrompt, ""}

CaptureSlots == 1..MaxPending

\* the guard of captureAndAnalyze and of handleUserPromptSubmit (the camera is
\* mounted): they return when it holds
CaptureRefused(session, busy) == session = 0 \/ busy

\* mutant: the busy flag is not looked at
QueueRefusedEmptyOnly(busy, backlog) == Len(backlog) = 0

\* the guard of processAnalysisQueue: it returns when it holds
QueueRefused(busy, backlog) == busy \/ Len(backlog) = 0

\* mutant: shift() for pop()
Oldest(backlog) == backlog[1]

\* analysisQueueRef.current.pop()
Latest(backlog) == backlog[Len(backlog)]

\* prompt || "Auto"
HistoryPrompt(prompt) == IF prompt = NoPrompt \/ prompt = "" THEN "Auto" ELSE prompt

\* mutant: the prompt is not looked at
CompletionPromptDefault(prompt) == DefaultPrompt

\* the content of the message: prompt || "Briefly describe what you see ..."
CompletionPrompt(prompt) ==
  IF prompt = NoPrompt \/ prompt = "" THEN DefaultPrompt ELSE prompt

\* mutant: the flag is never raised
BusyInRoundUnset == FALSE

\* isProcessingRef.current = true, past the guard
BusyInRound == TRUE

\* mutant: the flag is cleared at the end of the try block, not in finally
BusyAfterRoundOnSuccess(threw) == threw

\* isProcessingRef.current once a round is over: the finally block clears it
\* whether the round threw or not
BusyAfterRound(threw) == FALSE

\* mutant: the catch block rethrows
RoundRethrowsAll(threw) == threw

\* whether the promise of processAnalysisQueue rejects: the catch block logs,
\* calls resetVLMContext() and does not rethrow
RoundRethrows(threw) == FALSE

\* the sessions resetVLMContext() calls release() on: none, it only sets the
\* state to null and calls initializeVLM()
ReleasedOnReset(session) == {}

\* the sessions the cleanup of the mount effect calls release() on:
\* vlm?.release(), for the vlm of the render the effect belongs to
ReleasedOnUnmount(session) == IF session = 0 THEN {} ELSE {session}

\* the vlm of the first render, the one the mount effect and its cleanup
\* belong to (the effect has no dependencies and never runs again)
MountSession == 0

\* the periods of the interval buttons
Intervals == {1000, 2000, 3000, 5000}

\* useState("interval"): nothing calls setCaptureMode
captureMode == "interval"

\* permission?.granted: the camera view is shown once the permission is given
permissionGranted == TRUE

\* the condition of the capture effect
Capturing(mode, active, session, granted) ==
  mode = "interval" /\ active /\ session # 0 /\ granted

\* stopContinuousCapture()
stopContinuousCapture ==
  /\ timers' = {t \in timers : t.id # intervalRef}
  /\ intervalRef' = 0
  /\ UNCHANGED <<ntimers, captures>>

\* startContinuousCapture() of a render with this session: the timer of
\* intervalRef is cleared, a timer is set with the period of that render, and
\* captureAndAnalyze() runs up to its await
startContinuousCapture(session) ==
  /\ timers' = {t \in timers : t.id # intervalRef}
                 \cup {[id |-> ntimers + 1, period |-> captureInterval]}
  /\ intervalRef' = ntimers + 1
  /\ ntimers' = ntimers + 1
  /\ IF CaptureRefused(session, isProcessing)
       THEN UNCHANGED captures
       ELSE /\ nframes + Cardinality(DOMAIN captures) < MaxCamFrames
            /\ \E k \in CaptureSlots :
                 /\ k \notin DOMAIN captures
                 /\ \A j \in CaptureSlots : j < k => j \in DOMAIN captures
                 /\ captures' = MapSet(captures, k,
                                       [vlm |-> session, prompt |-> NoPrompt])

\* the capture effect, which runs after a render in which isActive or vlm has
\* changed: its cleanup stops the capture, its body starts or stops it
captureEffect(active, session) ==
  IF Capturing(captureMode, active, session, permissionGranted)
    THEN startContinuousCapture(session)
    ELSE stopContinuousCapture

\* the frame under analysis, 0 when there is none
Current == IF rounds = {} THEN 0 ELSE (CHOOSE r \in rounds : TRUE).frame

\* captureAndAnalyze() (prompt undefined) or handleUserPromptSubmit(): past the
\* guard, takePictureAsync is awaited; the closure keeps the session it saw.
\* cameraRef.current is the camera view while the component is mounted
takePicture(k, prompt) ==
  /\ UNCHANGED <<restVLM, camVars>>
  /\ mounted
  /\ ~CaptureRefused(vlm, isProcessing)
  /\ k \notin DOMAIN captures
  /\ \A j \in CaptureSlots : j < k => j \in DOMAIN captures
  /\ nframes + Cardinality(DOMAIN captures) < MaxFrames
  /\ captures' = MapSet(captures, k, [vlm |-> vlm, prompt |-> prompt])
  /\ UNCHANGED <<vlm, isProcessing, queue, rounds, inits, analysisHistory,
                 nframes, nsessions, ninits, enq, log, failed, unhandled,
                 temps, released>>

captureAndAnalyze(k) == takePicture(k, NoPrompt)

\* prompt is the text the input holds when Analyze is pressed
handleUserPromptSubmit(k, prompt) == takePicture(k, prompt)

\* takePictureAsync throws, or resolves without a uri: nothing is pushed
pictureFailed(k) ==
  /\ UNCHANGED <<restVLM, camVars>>
  /\ k \in DOMAIN captures
  /\ captures' = MapDelete(captures, k)
  /\ UNCHANGED <<vlm, isProcessing, queue, rounds, inits, analysisHistory,
                 nframes, nsessions, ninits, enq, log, failed, unhandled,
                 temps, released>>

\* takePictureAsync resolves: the frame is pushed and processAnalysisQueue
\* runs up to its first await
processAnalysisQueue(k) ==
  /\ UNCHANGED <<restVLM, camVars>>
  /\ k \in DOMAIN captures
  /\ captures' = MapDelete(captures, k)
  /\ nframes' = nframes + 1
  /\ enq' = Append(enq, Current)
  /\ LET pushed == Append(queue, nframes + 1) IN
       IF QueueRefused(isProcessing, pushed)
         THEN /\ queue' = pushed
              /\ UNCHANGED <<isProcessing, rounds>>
       ELSE IF captures[k].vlm = 0
         THEN /\ queue' = <<>>
              /\ UNCHANGED <<isProcessing, rounds>>
         ELSE /\ isProcessing' = BusyInRound
              /\ queue' = <<>>
              /\ rounds' = rounds \cup
                   {[frame |-> Latest(pushed), prompt |-> captures[k].prompt,
                     vlm |-> captures[k].vlm, pc |-> "copy"]}
  /\ UNCHANGED <<vlm, inits, analysisHistory, nsessions, ninits, log, failed,
                 unhandled, temps, released>>

\* the temporary directory is made and the frame copied to temp_<now>.jpg;
\* vlm.completion is called
roundCopied(r) ==
  /\ UNCHANGED <<restVLM, camVars>>
  /\ r \in rounds /\ r.pc = "copy"
  /\ rounds' = (rounds \ {r}) \cup {[r EXCEPT !.pc = "infer"]}
  /\ log' = Append(log, [frame |-> r.frame, prompt |-> r.prompt, vlm |-> r.vlm,
                          content |-> CompletionPrompt(r.prompt)])
  /\ temps' = temps \cup {r.frame}
  /\ UNCHANGED <<vlm, isProcessing, queue, captures, inits, analysisHistory,
                 nframes, nsessions, ninits, enq, failed, unhandled, released>>

\* vlm.completion resolves: the history gains an entry; deleteAsync is awaited
roundAnalyzed(r) ==
  /\ UNCHANGED <<restVLM, camVars>>
  /\ r \in rounds /\ r.pc = "infer"
  /\ rounds' = (rounds \ {r}) \cup {[r EXCEPT !.pc = "cleanup"]}
  /\ analysisHistory' =
       <<[frame |-> r.frame, prompt |-> HistoryPrompt(r.prompt)]>>
         \o analysisHistory
  /\ UNCHANGED <<vlm, isProcessing, queue, captures, inits, nframes, nsessions,
                 ninits, enq, log, failed, unhandled, temps, released>>

\* deleteAsync(destPath) resolves; finally
roundDone(r) ==
  /\ UNCHANGED <<restVLM, camVars>>
  /\ r \in rounds /\ r.pc = "cleanup"
  /\ rounds' = rounds \ {r}
  /\ isProcessing' = BusyAfterRound(FALSE)
  /\ temps' = temps \ {r.frame}
  /\ UNCHANGED <<vlm, queue, captures, inits, analysisHistory, nframes,
                 nsessions, ninits, enq, log, failed, unhandled, released>>

\* an await of the round throws (directory, copy, completion or deleteAsync):
\* catch calls resetVLMContext(), which sets the session to null and calls
\* initializeVLM() unless its closure holds no session; finally. A component
\* that is not mounted ignores setVLM and runs no effect
roundFailed(r) ==
  /\ UNCHANGED restVLM
  /\ r \in rounds
  /\ ninits < MaxInits
  /\ rounds' = rounds \ {r}
  /\ failed' = failed \cup {r.frame}
  /\ IF r.vlm = 0
       THEN UNCHANGED <<vlm, inits, ninits, timers, intervalRef, ntimers,
                        captures>>
       ELSE /\ vlm' = IF mounted THEN 0 ELSE vlm
            /\ inits' = inits + 1
            /\ ninits' = ninits + 1
            /\ IF mounted THEN captureEffect(isActive, 0)
               ELSE UNCHANGED <<timers, intervalRef, ntimers, captures>>
  /\ isProcessing' = BusyAfterRound(TRUE)
  /\ unhandled' = IF RoundRethrows(TRUE) THEN unhandled \cup {r.frame}
                   ELSE unhandled
  /\ released' = released \cup ReleasedOnReset(r.vlm)
  /\ UNCHANGED <<queue, analysisHistory, nframes, nsessions, enq, log, temps,
                 isActive, captureInterval, mounted, nuser>>

\* initializeVLM() ends: CactusVLM.init gave a session (setVLM(model)), or the
\* storage setup, a download or the init failed (the session is left as it is)
initializeVLM(ok) ==
  /\ UNCHANGED restVLM
  /\ inits > 0
  /\ inits' = inits - 1
  /\ IF ok
       THEN /\ nsessions' = nsessions + 1
            /\ vlm' = IF mounted THEN nsessions + 1 ELSE vlm
            /\ IF mounted THEN captureEffect(isActive, nsessions + 1)
               ELSE UNCHANGED <<timers, intervalRef, ntimers, captures>>
       ELSE UNCHANGED <<vlm, nsessions, timers, intervalRef, ntimers, captures>>
  /\ UNCHANGED <<isProcessing, queue, rounds, analysisHistory, nframes, ninits,
                 enq, log, failed, unhandled, temps, released,
                 isActive, captureInterval, mounted, nuser>>

\* the Start / Stop button: setIsActive(!isActive), and the capture effect
setIsActive ==
  /\ UNCHANGED restVLM
  /\ mounted /\ nuser < MaxUserOps
  /\ nuser' = nuser + 1
  /\ isActive' = ~isActive
  /\ captureEffect(~isActive, vlm)
  /\ UNCHANGED <<vlm, isProcessing, queue, rounds, inits, analysisHistory,
                 nframes, nsessions, ninits, enq, log, failed, unhandled,
                 temps, released, captureInterval, mounted>>

\* an interval button: setCaptureInterval(interval); captureInterval is no
\* dependency of the capture effect, which does not run
setCaptureInterval(interval) ==
  /\ UNCHANGED restVLM
  /\ mounted /\ nuser < MaxUserOps
  /\ nuser' = nuser + 1
  /\ captureInterval' = interval
  /\ UNCHANGED <<vlm, isProcessing, queue, captures, rounds, inits,
                 analysisHistory, nframes, nsessions, ninits, enq, log, failed,
                 unhandled, temps, released, isActive, timers, intervalRef,
                 ntimers, mounted>>

\* a timer fires: captureAndAnalyze() of the render that set it, whose session
\* is the current one as the capture effect runs again whenever vlm changes
tick(k) ==
  /\ timers # {}
  /\ captureAndAnalyze(k)

\* the component is unmounted: the cleanup of the mount effect (vlm?.release(),
\* clearInterval) and of the capture effect (stopContinuousCapture) run
unmount ==
  /\ UNCHANGED restVLM
  /\ mounted
  /\ mounted' = FALSE
  /\ released' = released \cup ReleasedOnUnmount(MountSession)
  /\ timers' = {t \in timers : t.id # intervalRef}
  /\ intervalRef' = 0
  /\ UNCHANGED <<vlm, isProcessing, queue, captures, rounds, inits,
                 analysisHistory, nframes, nsessions, ninits, enq, log, failed,
                 unhandled, temps, isActive, captureInterval, ntimers, nuser>>

NextVLM ==
  \/ \E k \in CaptureSlots : captureAndAnalyze(k)
  \/ \E k \in CaptureSlots : handleUserPromptSubmit(k, userPrompt)
  \/ \E k \in CaptureSlots : pictureFailed(k)
  \/ \E k \in CaptureSlots : processAnalysisQueue(k)
  \/ \E r \in rounds : roundCopied(r)
  \/ \E r \in rounds : roundAnalyzed(r)
  \/ \E r \in rounds : roundDone(r)
  \/ \E r \in rounds : roundFailed(r)
  \/ \E ok \in BOOLEAN : initializeVLM(ok)

SpecVLM == Init /\ [][NextVLM]_vars

\* the user edits the prompt between submissions, clearing it at times
NextPrompt ==
  \/ /\ nframes + Cardinality(DOMAIN captures) < MaxPromptFrames
     /\ \E k \in CaptureSlots : captureAndAnalyze(k)
  \/ /\ nframes + Cardinality(DOMAIN captures) < MaxPromptFrames
     /\ \E k \in CaptureSlots, prompt \in UserPrompts :
          handleUserPromptSubmit(k, prompt)
  \/ \E k \in CaptureSlots : pictureFailed(k)
  \/ \E k \in CaptureSlots : processAnalysisQueue(k)
  \/ \E r \in rounds : roundCopied(r)
  \/ \E r \in rounds : roundAnalyzed(r)
  \/ \E r \in rounds : roundDone(r)
  \/ \E r \in rounds : roundFailed(r)
  \/ \E ok \in BOOLEAN : initializeVLM(ok)

SpecPrompt == Init /\ [][NextPrompt]_vars

\* the user starts and stops the interval capture, selects periods, submits
\* prompts and leaves the screen; the interval captures are those of the timer
NextCam ==
  \/ /\ nframes + Cardinality(DOMAIN captures) < MaxCamFrames
     /\ \E k \in CaptureSlots : tick(k)
  \/ /\ nframes + Cardinality(DOMAIN captures) < MaxCamFrames
     /\ \E k \in CaptureSlots : handleUserPromptSubmit(k, userPrompt)
  \/ \E k \in CaptureSlots : pictureFailed(k)
  \/ \E k \in CaptureSlots : processAnalysisQueue(k)
  \/ \E r \in rounds : roundCopied(r)
  \/ \E r \in rounds : roundAnalyzed(r)
  \/ \E r \in rounds : roundDone(r)
  \/ \E r \in rounds : roundFailed(r)
  \/ \E ok \in BOOLEAN : initializeVLM(ok)
  \/ setIsActive
  \/ \E interval \in Intervals : setCaptureInterval(interval)
  \/ unmount

SpecCam == Init /\ [][NextCam]_vars

-----------------------------------------------------------------------------
(* Claims about the hook *)

\* C1: when downloadModel(u, f) has returned a path and the file at that path
\* has not been deleted since, the next downloadModel(u, f) begins no transfer
\* and returns the same path (read for a call whose existence check answers)
C1_SecondDownloadNoTransfer ==
  (last.op = "download" /\ last.prior # NoPath /\ last.err # FsError)
    => (~last.net /\ last.ret = "path" /\ last.path = last.prior)

\* C2: a download call whose existence check finds a file of size 0 at its
\* path does not return there: in that step it stores the record
\* (progress 0, downloading) and begins the transfer (read for a check that
\* does not throw)
C2_ZeroByteRefetched ==
  [][\A c \in Slots :
       ( /\ calls[c].op = "download" /\ calls[c].pc = "resolved"
         /\ calls'[c].pc # "resolved"
         /\ FoundSize(calls[c].path) = 0
         /\ ~(calls'[c].pc = "idle" /\ last'.err = FsError) )
       => ( /\ calls'[c].pc = "transfer" /\ calls'[c].net
            /\ calls[c].f \in DOMAIN downloads'
            /\ downloads'[calls[c].f] = DownloadProgress(Zero, TRUE, "null") )
    ]_vars

C2_Witness ==
  \E c \in Slots : calls[c].pc = "transfer" /\ calls[c].found = 0

\* C3: while the record of f stays in the downloading state, no update of it
\* lowers its progress
C3_ProgressMonotone ==
  [][\A f \in Filenames :
       ( /\ f \in DOMAIN downloads /\ f \in DOMAIN downloads'
         /\ downloads[f].isDownloading /\ downloads'[f].isDownloading
         /\ downloads'[f] # downloads[f] )
       => Leq(downloads[f].progress, downloads'[f].progress)
    ]_vars

\* C8: a downloadModel call that does not return its path rejects with the
\* error it met, and leaves the record of f not downloading, with progress 0
\* and that error's message
C8_FailureRecorded ==
  (last.op = "download" /\ last.ret # "path")
    => ( /\ last.ret = "rejected"
         /\ last.err \notin {"null", "none"}
         /\ last.rec = {[progress |-> Zero, isDownloading |-> FALSE,
                         error |-> last.err]} )

C8_Witness ==
  /\ last.op = "download" /\ last.ret = "rejected"
  /\ last.err = TransferError
  /\ last.net

\* C9: a downloadModel(url, f) made on empty storage with no record of f, alone,
\* that returns its path has begun a transfer (record: progress 0,
\* downloading), has stored only progress values that rise and stay within 1,
\* leaves the record complete (progress 1, not downloading, no error), and
\* returns a path that ends with f
C9_FreshDownloadLifecycle ==
  (last.op = "download" /\ last.fresh /\ last.solo /\ last.ret = "path")
    => ( /\ last.net
         /\ last.rising
         /\ last.rec = {DownloadProgress(One, FALSE, "null")}
         /\ last.path.name = last.f )

\* C10: a deleteModel(f) made right after a successful downloadModel(url, f),
\* nothing else in flight, returns true and leaves the downloaded file absent
\* and no record of f; a deleteModel(f) made right after it has returned true
\* returns false (read for calls whose file system calls do not throw)
C10_DeleteAfterDownload ==
  /\ (last.op = "delete" /\ last.follows = "download" /\ last.err # FsError)
       => ( /\ last.ret = "true"
            /\ last.followsPath \notin last.stored
            /\ last.rec = {} )
  /\ (last.op = "delete" /\ last.follows = "delete" /\ last.err # FsError)
       => last.ret = "false"

-----------------------------------------------------------------------------
(* Claims about the vision component *)

\* the frames a round was started on
Started == {r.frame : r \in rounds} \cup {log[i].frame : i \in DOMAIN log} \cup failed

\* the frames pushed while frame x was under analysis
PushedDuring(x) == {g \in DOMAIN enq : enq[g] = x}

Max(S) == CHOOSE m \in S : \A n \in S : n <= m

\* C4: at most one vlm.completion call is in flight
C4_OneInference == Cardinality({r \in rounds : r.pc = "infer"}) <= 1

C4_Witness ==
  /\ \E r \in rounds : r.pc = "infer"
  /\ Len(queue) > 0
  /\ DOMAIN captures # {}
  /\ Len(analysisHistory) > 0

\* C5: of the frames pushed while one analysis was in flight, at most one is
\* ever analyzed afterwards, and only the one pushed last
C5_BacklogLatestOnly ==
  \A g \in Started :
    enq[g] # 0 =>
      /\ g = Max(PushedDuring(enq[g]))
      /\ enq[g] \notin {r.frame : r \in rounds}

C5_Witness ==
  \E x \in Started :
    /\ Cardinality(PushedDuring(x)) >= 2
    /\ x \notin {r.frame : r \in rounds}
    /\ \E g \in Started : g > Max(PushedDuring(x))
    /\ PushedDuring(x) \cap Started = {}

\* frames 1, 2 and 3 came in rapid succession: 1 was pushed with the worker
\* idle and the backlog empty, 2 and 3 while 1 was under analysis
RapidTriple == Len(enq) >= 3 /\ enq[1] = 0 /\ enq[2] = 1 /\ enq[3] = 1

RoundOver(g) == g \in Started /\ g \notin {r.frame : r \in rounds}

HistoryOf(S) == {i \in DOMAIN analysisHistory : analysisHistory[i].frame \in S}

\* C6: after a rapid triple whose first round has ended without an error,
\* exactly one analysis has run, on frame 3, and the history holds exactly one
\* entry for the triple
C6_RapidTripleRunsThird ==
  (RapidTriple /\ RoundOver(1) /\ 1 \notin failed)
    => ( /\ Started \cap {1, 2, 3} = {3}
         /\ Cardinality(HistoryOf({1, 2, 3})) = 1 )

\* C7: once an analysis has failed and every initializeVLM() call made has
\* ended with a session, a session is installed and, when no round is running,
\* the busy flag is clear and the capture guard lets the next capture through
C7_NoLockout ==
  (failed # {} /\ nsessions = ninits) =>
    /\ vlm # 0
    /\ rounds = {} => (~isProcessing /\ ~CaptureRefused(vlm, isProcessing))

\* after a failure and the reinitialization, a frame captured with the new
\* session is under analysis
C7_Witness ==
  /\ failed # {} /\ nsessions = ninits
  /\ \E r \in rounds : r.pc = "infer" /\ r.vlm = vlm /\ r.vlm > 1

-----------------------------------------------------------------------------
(* Claims about paths and directories *)

\* the record and the stored files of filename g
RecordOf(g, d) == IF g \in DOMAIN d THEN {d[g]} ELSE {}
FilesOf(g, fs) == {<<p, fs[p]>> : p \in {q \in DOMAIN fs : q.name = g}}

C19_PathDeterministic ==
  \A c \in Slots :
    calls[c].pc # "idle" =>
      /\ \A d \in Slots :
           (calls[d].pc # "idle" /\ calls[d].f = calls[c].f)
             => calls[d].path = calls[c].path
      /\ (last.op \in {"download", "delete", "lookup"} /\ last.f = calls[c].f)
           => last.path = calls[c].path

\* C20: when downloadModel goes on to the transfer, past
\* ensureDirectoryExists(path), the directory of path exists
C20_ParentDirectoryMade ==
  [][\A c \in Slots :
       ( /\ calls[c].op = "download" /\ calls[c].pc = "resolved"
         /\ calls'[c].pc = "transfer" )
       => Parent(calls[c].path) \in dirs'
    ]_vars

-----------------------------------------------------------------------------
(* Claims about failures and the backlog of the vision component *)

\* C12: a step in which a round fails rejects no promise the capturing caller
\* could see, and makes the call resetVLMContext() -> initializeVLM(): the
\* session is set to null and one more initialization is in flight
C12_FailureContained ==
  [][failed' # failed =>
       /\ unhandled' = {}
       /\ vlm' = 0
       /\ inits' = inits + 1 /\ ninits' = ninits + 1
    ]_vars

C12_Witness ==
  /\ failed # {} /\ unhandled = {}
  /\ vlm = 0 /\ inits > 0
  /\ \E g \in failed : g \in temps

\* C14: a step that ends a round (the busy flag goes from true to false) with
\* frames in the backlog starts a round
C14_BacklogRedrained ==
  [][(isProcessing /\ ~isProcessing' /\ Len(queue') > 0) => rounds' # {}]_vars

\* C15: a step that starts an analysis starts it on the frame pushed last and
\* leaves the backlog empty; as frames are numbered in push order, a frame that
\* was behind it can start no analysis later
C15_LatestTakenRestDropped ==
  [][\A g \in Started' \ Started : g = nframes' /\ queue' = <<>>]_vars

\* a round runs on a frame pushed after frames that were dropped unanalyzed
C15_Witness ==
  /\ queue = <<>>
  /\ \E r \in rounds : \E g \in DOMAIN enq : g < r.frame /\ g \notin Started

\* C16: the copy of a frame in temp_images/ exists only while the round of that
\* frame is running
C16_TempFileRemoved == \A g \in temps : g \in {r.frame : r \in rounds}

\* C17: once an analysis has failed and every initializeVLM() call made has
\* ended with a session, at most one session exists that release() was not
\* called on
C17_OldSessionReleased ==
  (failed # {} /\ nsessions = ninits)
    => Cardinality((1..nsessions) \ released) <= 1

\* C18: the history changes only by gaining one entry in front, and holds
\* exactly one entry, with the round's prompt or "Auto", for every round that
\* ended without an error and none for a round that ended in the catch block
C18_HistoryCountsSuccesses ==
  /\ [][analysisHistory' # analysisHistory =>
          \E g \in Started :
            analysisHistory' =
              <<[frame |-> g, prompt |-> analysisHistory'[1].prompt]>>
                \o analysisHistory]_vars
  /\ [](\A g \in Started :
          RoundOver(g) =>
            Cardinality(HistoryOf({g})) = IF g \in failed THEN 0 ELSE 1)

\* C24: from the step in which a failed round sets the session to null until
\* a session is installed again, no vlm.completion call is made
C24_NoInferenceWhileReinitializing ==
  [][log' # log => ~(failed # {} /\ vlm = 0)]_vars

\* a step that starts a round starts it on the frame pushed in that step
\* (frames are numbered as they are pushed), with the prompt of the capture
\* that pushed it
RoundPairsOwnFrame ==
  \A r \in rounds' \ rounds :
    r.pc = "copy" =>
      \E k \in DOMAIN captures \ DOMAIN captures' :
        r.frame = nframes' /\ r.prompt = captures[k].prompt

\* C30 as stated: every round runs on the frame of its own capture, and every
\* vlm.completion call carries the prompt of the round, the default prompt for
\* an interval capture and the user's prompt, never the default one, for a
\* frame of handleUserPromptSubmit
C30_PromptFramePaired ==
  /\ [][RoundPairsOwnFrame]_vars
  /\ [](\A i \in DOMAIN log :
          IF log[i].prompt = NoPrompt
            THEN log[i].content = DefaultPrompt
            ELSE log[i].content = log[i].prompt)

\* C30: every round runs on the frame of its own capture, and every
\* vlm.completion call carries the prompt of the round: the user's prompt for
\* a frame of handleUserPromptSubmit when that prompt is not empty, the default
\* prompt for an interval capture and for a submission with an empty prompt
C30_PromptFramePairedNonEmpty ==
  /\ [][RoundPairsOwnFrame]_vars
  /\ [](\A i \in DOMAIN log :
          IF log[i].prompt \in {NoPrompt, ""}
            THEN log[i].content = DefaultPrompt
            ELSE log[i].content = log[i].prompt)

\* an analysis has run on a user's frame with the user's prompt and another
\* on an interval frame, after a frame was dropped unanalyzed
C30_Witness ==
  \E i, j \in DOMAIN log :
    /\ log[i].prompt = userPrompt /\ log[i].content = userPrompt
    /\ log[j].prompt = NoPrompt
    /\ \E g \in DOMAIN enq : g < log[i].frame /\ g \notin Started

\* C23: every timer that runs has the period selected, and at most one runs
C23_TimerFollowsInterval ==
  /\ \A t \in timers : t.period = captureInterval
  /\ Cardinality(timers) <= 1

\* C25: once the component is unmounted, release() has been called on the
\* session that was installed and no timer runs; and no vlm.completion call is
\* made on a session release() has been called on
C25_ReleasedOnUnmount ==
  /\ []((~mounted /\ vlm # 0) => (vlm \in released /\ timers = {}))
  /\ [][log' # log => log'[Len(log')].vlm \notin released]_vars

-----------------------------------------------------------------------------
(* Claims about the records and the lookups of the hook *)

\* C21: every record holds a progress value p with 0 <= p <= 1
C21_ProgressInUnitInterval ==
  \A f \in DOMAIN downloads :
    Leq(Zero, downloads[f].progress) /\ Leq(downloads[f].progress, One)

\* C22: a deleteModel(f) that has returned leaves no record of f, and has
\* returned true exactly when it found a file at its path and removed it (read
\* for a call whose file system calls do not throw)
C22_DeleteClearsRecord ==
  (last.op = "delete" /\ last.err # FsError)
    => ( /\ last.rec = {}
         /\ last.ret = "true" => last.size = -1 )

\* C26: a downloadModel call that has returned its path leaves at that path a
\* file of the full length of the artifact, the product of a transfer that
\* ended with status 200
C26_PathOnlyForFullFile ==
  (last.op = "download" /\ last.ret = "path") => last.size = FileSize

\* C28: while no downloadModel call for f is in flight, the record of f, if
\* there is one, is complete (progress 1, not downloading, no error) or failed
\* (progress 0, not downloading, an error)
C28_SettledRecordNotDownloading ==
  \A f \in DOMAIN downloads :
    (\A c \in Slots : ~(calls[c].op = "download" /\ calls[c].f = f))
      => \/ downloads[f] = DownloadProgress(One, FALSE, "null")
         \/ /\ downloads[f].progress = Zero /\ ~downloads[f].isDownloading
            /\ downloads[f].error \in {FsError, TransferError}

\* two overlapping downloadModel calls have settled, the last of them with its
\* path, and nothing is in flight
C28_Witness ==
  /\ Idle /\ nops = MaxOps
  /\ last.op = "download" /\ ~last.solo /\ last.net /\ last.ret = "path"
  /\ "a.gguf" \in DOMAIN downloads

\* C29: a getModelPath(f) returns a path exactly when a downloadModel(url, f)
\* would return at its existence check, that is when the file at the path has
\* a size above 0 (read for a call whose file system calls do not throw)
C29_LookupAgreesWithShortCircuit ==
  (last.op = "lookup" /\ last.err # FsError)
    => (last.ret = "path" <=> last.size > 0)

-----------------------------------------------------------------------------
(* Claims about the model manager *)

\* C11: for every name, while release() has not been called on its model,
\* CactusLM.init has been called at most once for it (failed calls aside) and
\* loadLM has returned at most one instance for it
C11_InitOncePerName ==
  \A name \in ModelNames :
    lmInits[name] <= 1 /\ Cardinality(lmReturned[name]) <= 1

\* C27: loadLM has returned no instance that release() was called on before it
\* returned it
C27_NoReleasedInstanceReturned ==
  \A name \in ModelNames : lmReturned[name] \cap lmReleased = {}

====
